---- MODULE Spec2Model ----
(***************************************************************************)
(* A model of the A* path finder of mazebot (src/main.rs, solve_maze).     *)
(*                                                                         *)
(* A position is a pair <<px, py>> (Rust pos[0], pos[1]); the map is a     *)
(* sequence of rows, so that the Rust maze.map[ny][nx] is map[ny+1][nx+1]. *)
(* One step of the model is one iteration of the main loop of solve_maze   *)
(* (pop, then discard / return / expand all four neighbours) or one        *)
(* iteration of the path reconstruction loop.                              *)
(*                                                                         *)
(* std::collections::BinaryHeap orders Pairs by key only; which of several *)
(* entries of equal key it pops is left to the library.  The frontier is   *)
(* kept as the sequence of its entries in insertion order, and the entry   *)
(* popped among those of greatest key is fixed by `tie`: the oldest, the   *)
(* youngest, or any of them.                                               *)
(***************************************************************************)
EXTENDS Integers, Sequences, FiniteSets, TLC

\* Bounds of the model.
MaxX == 3
MaxY == 3
MaxWalls == 2
MaxRuns == 2

VARIABLES
    map,                \* maze.map
    starting_position,  \* maze.starting_position
    ending_position,    \* maze.ending_position
    open_list,          \* the frontier, entries in insertion order
    closed_list,        \* set of node ids
    nodes,              \* node table: id -> Node
    c_idx,              \* id of the entry popped last (-1 before the first pop)
    b,                  \* cursor of the path reconstruction loop
    path,               \* the path built by the reconstruction loop
    pc,                 \* "loop", "path", "done" or "panic"
    tie,                \* how the heap breaks ties between equal keys
    run,                \* number of the current invocation of solve_maze
    results,            \* the sequences returned by the finished invocations
    last,               \* the branch the last loop iteration took ("init" before the first)
    expansions          \* id -> number of times the id was expanded in this invocation

vars == <<map, starting_position, ending_position, open_list, closed_list, nodes,
          c_idx, b, path, pc, tie, run, results, last, expansions>>

maze == <<map, starting_position, ending_position>>

TieBreaks == {"first", "last", "any"}

----------------------------------------------------------------------------
\* Pair, Node and the heuristic

Pair(key, value) == [key |-> key, value |-> value]

from_pos(pos, nx, ny) ==
    [pos |-> pos, x |-> nx, y |-> ny, g |-> -1, h |-> -1, best_pred |-> 0, direction |-> "@"]

Node_new(i, nx, ny) == from_pos(<<i % nx, i \div nx>>, nx, ny)

id(n) == n.x * n.pos[2] + n.pos[1]

\* variant of f: the sum without the sign change
fPlain(n) == n.g + n.h

\* the heap key of a node: BinaryHeap is a max-heap, hence the sign
f(n) == -(n.g + n.h)

Abs(v) == IF v < 0 THEN -v ELSE v

\* variant of calculate_shortest_possible: the squared straight-line distance
calculate_squared(s, t) == (s[1] - t[1]) * (s[1] - t[1]) + (s[2] - t[2]) * (s[2] - t[2])

calculate_shortest_possible(s, t) == Abs(s[1] - t[1]) + Abs(s[2] - t[2])

----------------------------------------------------------------------------
\* The locals of solve_maze that depend on the maze only

y == Len(map)

x == Len(map[1])

start == from_pos(ending_position, x, y)

end == from_pos(starting_position, x, y)

Directions ==
    << <<"N", <<0, 1>> >>, <<"W", <<1, 0>> >>, <<"E", <<-1, 0>> >>, <<"S", <<0, -1>> >> >>

\* variant of IsWall: no cell counts as a wall
NoWall(nx, ny) == FALSE

OutOfBounds(nx, ny) == nx >= x \/ nx < 0 \/ ny >= y \/ ny < 0

IsWall(nx, ny) == map[ny + 1][nx + 1] = "X"

----------------------------------------------------------------------------
\* The frontier

\* variant of MaxKey: the least key, as a min-heap would take it
MinKey(heap) == CHOOSE k \in {heap[i].key : i \in DOMAIN heap} :
                    \A j \in DOMAIN heap : k <= heap[j].key

\* Pair::cmp compares the keys; pop() takes an entry of the greatest key
MaxKey(heap) == CHOOSE k \in {heap[i].key : i \in DOMAIN heap} :
                    \A j \in DOMAIN heap : heap[j].key <= k

Tops(heap) == {i \in DOMAIN heap : heap[i].key = MaxKey(heap)}

MinIdx(S) == CHOOSE i \in S : \A j \in S : i <= j

MaxIdx(S) == CHOOSE i \in S : \A j \in S : j <= i

\* the indices open_list.pop() may take
PopChoices(heap) ==
    CASE tie = "first" -> {MinIdx(Tops(heap))}
      [] tie = "last"  -> {MaxIdx(Tops(heap))}
      [] OTHER         -> Tops(heap)

\* variant of PopRest: the entry stays in the heap
PeekRest(heap, i) == heap

\* variant of PopRest: every entry of the popped key leaves the heap
PopTies(heap, i) == SelectSeq(heap, LAMBDA e : e.key # heap[i].key)

\* the heap after pop() took entry i
PopRest(heap, i) == [j \in 1..(Len(heap) - 1) |-> IF j < i THEN heap[j] ELSE heap[j + 1]]

\* variant of PopIsStale: the closed list is not consulted
NeverStale(c) == FALSE

\* the test of line 177
PopIsStale(c) == c \in closed_list

\* variant of IsTarget: only a node with a cost counts
TargetIfReached(current) == current.pos = end.pos /\ current.g >= 0

\* the test of line 183
IsTarget(current) == current.pos = end.pos

----------------------------------------------------------------------------
\* Neighbour relaxation: the body of the for loop, lines 195-217.
\* st = [nodes, open_list]; closed is the closed list with c_idx already in it.

\* variant of Improves: a reached neighbour keeps its cost
ImprovesOnlyUnreached(neighbor, current) == neighbor.g < 0

\* variant of Improves: an equal cost also replaces the predecessor
ImprovesOrEqual(neighbor, current) == neighbor.g >= current.g + 1 \/ neighbor.g < 0

\* variant of NeighborClosed: the closed list is not consulted
NeighborNeverClosed(neighbor_idx, closed) == FALSE

\* the test of line 207
NeighborClosed(neighbor_idx, closed) == neighbor_idx \in closed

\* the test of line 209
Improves(neighbor, current) == neighbor.g > current.g + 1 \/ neighbor.g < 0

RelaxOne(st, closed, current, k) ==
    LET direction == Directions[k][1]
        dx == Directions[k][2][1]
        dy == Directions[k][2][2]
        nx == current.pos[1] + dx
        ny == current.pos[2] + dy
        neighbor_idx == nx + ny * x
        inserted == IF neighbor_idx \in DOMAIN st.nodes
                    THEN st.nodes
                    ELSE [i \in DOMAIN st.nodes \cup {neighbor_idx} |->
                            IF i = neighbor_idx THEN Node_new(neighbor_idx, x, y)
                            ELSE st.nodes[i]]
        neighbor == inserted[neighbor_idx]
        updated == [neighbor EXCEPT !.best_pred = id(current),
                                    !.direction = direction,
                                    !.g = current.g + 1,
                                    !.h = calculate_shortest_possible(end.pos, neighbor.pos)]
    IN  IF OutOfBounds(nx, ny) THEN st
        ELSE IF IsWall(nx, ny) THEN st
        ELSE IF NeighborClosed(neighbor_idx, closed) THEN [st EXCEPT !.nodes = inserted]
        ELSE IF Improves(neighbor, current)
             THEN [nodes |-> [inserted EXCEPT ![neighbor_idx] = updated],
                   open_list |-> Append(st.open_list, Pair(f(updated), neighbor_idx))]
        ELSE [st EXCEPT !.nodes = inserted]

RECURSIVE RelaxFrom(_, _, _, _)
\* the for loop of line 194 from its k-th direction on
RelaxFrom(st, closed, current, k) ==
    IF k > Len(Directions) THEN st
    ELSE CHOOSE r \in {RelaxFrom(s1, closed, current, k + 1) :
                          s1 \in {RelaxOne(st, closed, current, k)}} : TRUE

----------------------------------------------------------------------------
\* The mazes

Cells(w, hgt) == {<<cx, cy>> : cx \in 0..(w - 1), cy \in 0..(hgt - 1)}

Grid(w, hgt, walls) ==
    [r \in 1..hgt |-> [c \in 1..w |-> IF (r - 1) * w + (c - 1) \in walls THEN "X" ELSE " "]]

Grids(w, hgt) ==
    {Grid(w, hgt, walls) : walls \in {s \in SUBSET (0..(w * hgt - 1)) : Cardinality(s) <= MaxWalls}}

\* lines 160-173: the state of a fresh invocation
Fresh ==
    /\ open_list' = <<Pair(f(start'), id(start'))>>
    /\ closed_list' = {}
    /\ nodes' = [i \in {id(start')} |-> start']
    /\ c_idx' = -1
    /\ b' = start'
    /\ path' = <<>>
    /\ pc' = "loop"
    /\ last' = "init"
    /\ expansions' = [i \in {} |-> 0]

Init ==
    /\ \E w \in 1..MaxX, hgt \in 1..MaxY :
          /\ map \in Grids(w, hgt)
          /\ starting_position \in Cells(w, hgt)
          /\ ending_position \in Cells(w, hgt)
    /\ tie \in TieBreaks
    /\ open_list = <<Pair(f(start), id(start))>>
    /\ closed_list = {}
    /\ nodes = [i \in {id(start)} |-> start]
    /\ c_idx = -1
    /\ b = start
    /\ path = <<>>
    /\ pc = "loop"
    /\ run = 1
    /\ results = <<>>
    /\ last = "init"
    /\ expansions = [i \in {} |-> 0]

----------------------------------------------------------------------------
\* The main loop, lines 175-219

\* variant of Discard: the popped id leaves the closed list
DiscardReopen ==
    /\ pc = "loop"
    /\ open_list # <<>>
    /\ \E i \in PopChoices(open_list) :
          /\ PopIsStale(open_list[i].value)
          /\ c_idx' = open_list[i].value
          /\ open_list' = PopRest(open_list, i)
          /\ closed_list' = closed_list \ {open_list[i].value}
    /\ last' = "discard"
    /\ UNCHANGED <<maze, nodes, b, path, pc, tie, run, results, expansions>>

\* lines 176-179: the popped id is in the closed list
Discard ==
    /\ pc = "loop"
    /\ open_list # <<>>
    /\ \E i \in PopChoices(open_list) :
          /\ PopIsStale(open_list[i].value)
          /\ c_idx' = open_list[i].value
          /\ open_list' = PopRest(open_list, i)
    /\ last' = "discard"
    /\ UNCHANGED <<maze, closed_list, nodes, b, path, pc, tie, run, results, expansions>>

\* lines 176-186: the popped node is the target
Found ==
    /\ pc = "loop"
    /\ open_list # <<>>
    /\ \E i \in PopChoices(open_list) :
          /\ ~PopIsStale(open_list[i].value)
          /\ IsTarget(nodes[open_list[i].value])
          /\ c_idx' = open_list[i].value
          /\ open_list' = PopRest(open_list, i)
          /\ b' = nodes[open_list[i].value]
    /\ path' = <<>>
    /\ pc' = "path"
    /\ last' = "found"
    /\ UNCHANGED <<maze, closed_list, nodes, tie, run, results, expansions>>

\* lines 176-218: the popped node is closed and its neighbours are relaxed
Expand ==
    /\ pc = "loop"
    /\ open_list # <<>>
    /\ \E i \in PopChoices(open_list) :
          LET c == open_list[i].value
              current == nodes[c]
              closed == closed_list \cup {c}
          IN  /\ ~PopIsStale(c)
              /\ ~IsTarget(current)
              /\ c_idx' = c
              /\ closed_list' = closed
              /\ \E st \in {RelaxFrom([nodes |-> nodes, open_list |-> PopRest(open_list, i)],
                                      closed, current, 1)} :
                    /\ nodes' = st.nodes
                    /\ open_list' = st.open_list
              /\ expansions' = [j \in DOMAIN expansions \cup {c} |->
                                  IF j \in DOMAIN expansions
                                  THEN expansions[j] + (IF j = c THEN 1 ELSE 0)
                                  ELSE 1]
    /\ last' = "expand"
    /\ UNCHANGED <<maze, b, path, pc, tie, run, results>>

\* lines 175, 221: the frontier is empty, the empty vector is returned
LoopExit ==
    /\ pc = "loop"
    /\ open_list = <<>>
    /\ pc' = "done"
    /\ results' = Append(results, <<>>)
    /\ UNCHANGED <<maze, open_list, closed_list, nodes, c_idx, b, path, tie, run, last,
                   expansions>>

----------------------------------------------------------------------------
\* Path reconstruction, lines 185-191

\* lines 187-190: one iteration; nodes[&b.best_pred] panics on a missing key
PathStep ==
    /\ pc = "path"
    /\ b.pos # start.pos
    /\ path' = Append(path, b.direction)
    /\ IF b.best_pred \in DOMAIN nodes
       THEN b' = nodes[b.best_pred] /\ pc' = pc
       ELSE b' = b /\ pc' = "panic"
    /\ UNCHANGED <<maze, open_list, closed_list, nodes, c_idx, tie, run, results, last,
                   expansions>>

\* line 191
Return ==
    /\ pc = "path"
    /\ b.pos = start.pos
    /\ pc' = "done"
    /\ results' = Append(results, path)
    /\ UNCHANGED <<maze, open_list, closed_list, nodes, c_idx, b, path, tie, run, last,
                   expansions>>

----------------------------------------------------------------------------
\* A further invocation on the same maze

\* variant of Restart: the closed list outlives the invocation
RestartKeepClosed ==
    /\ pc = "done"
    /\ run < MaxRuns
    /\ run' = run + 1
    /\ UNCHANGED <<maze, tie, results, closed_list>>
    /\ open_list' = <<Pair(f(start'), id(start'))>>
    /\ nodes' = [i \in {id(start')} |-> start']
    /\ c_idx' = -1
    /\ b' = start'
    /\ path' = <<>>
    /\ pc' = "loop"
    /\ last' = "init"
    /\ expansions' = [i \in {} |-> 0]

\* race() calls solve_maze again (lines 308-311); here on the same maze, so that
\* two invocations can be compared.  Lines 160-173 build the state anew.
Restart ==
    /\ pc = "done"
    /\ run < MaxRuns
    /\ run' = run + 1
    /\ UNCHANGED <<maze, tie, results>>
    /\ Fresh

Next == Discard \/ Found \/ Expand \/ LoopExit \/ PathStep \/ Return \/ Restart

Spec == Init /\ [][Next]_vars

\* The steps of one invocation
SolveNext == Discard \/ Found \/ Expand \/ LoopExit \/ PathStep \/ Return

\* solve_maze is sequential code: a step that can be taken is taken
LiveSpec == Init /\ [][SolveNext]_vars /\ WF_vars(SolveNext)

----------------------------------------------------------------------------
\* Replaying a tour, lines 236-247 (show_maze_with_tour)

\* the match of lines 239-245; any other letter is unreachable!()
Move(pos, i) ==
    CASE i = "S" -> <<pos[1], pos[2] + 1>>
      [] i = "E" -> <<pos[1] + 1, pos[2]>>
      [] i = "N" -> <<pos[1], pos[2] - 1>>
      [] i = "W" -> <<pos[1] - 1, pos[2]>>

RECURSIVE Walk(_, _, _)
\* the position after the first k moves of tour
Walk(pos, tour, k) == IF k = 0 THEN pos ELSE Move(Walk(pos, tour, k - 1), tour[k])

----------------------------------------------------------------------------
\* Reference definitions: breadth-first search over the grid

Passable(p) == ~OutOfBounds(p[1], p[2]) /\ ~IsWall(p[1], p[2])

Adjacent(p, q) == Abs(p[1] - q[1]) + Abs(p[2] - q[2]) = 1

RECURSIVE BfsMap(_, _, _)
\* layer d of the search is `layer`, dmap maps the cells found so far to their
\* layer; a step enters passable cells only
BfsMap(layer, dmap, d) ==
    IF layer = {} THEN dmap
    ELSE LET nxt == {q \in Cells(x, y) \ DOMAIN dmap :
                        Passable(q) /\ \E p \in layer : Adjacent(p, q)}
         IN  BfsMap(nxt, [q \in DOMAIN dmap \cup nxt |->
                            IF q \in DOMAIN dmap THEN dmap[q] ELSE d + 1], d + 1)

\* the cells that a walk from src entering passable cells only reaches, with the
\* number of steps of a shortest one
DistFrom(src) == BfsMap({src}, [q \in {src} |-> 0], 0)

\* -1 stands for: no such walk
DistIn(dmap, dst) == IF dst \in DOMAIN dmap THEN dmap[dst] ELSE -1

Dist(src, dst) == DistIn(DistFrom(src), dst)

\* a path of passable cells connects the maze's start and goal
Connected ==
    /\ Passable(starting_position)
    /\ Passable(ending_position)
    /\ Dist(starting_position, ending_position) >= 0

Returned == pc = "done"

Result == results[run]

RECURSIVE ChainLen(_, _)
\* number of best_pred links from node n to the root; negative when the chain is broken
ChainLen(n, fuel) ==
    IF n.pos = start.pos THEN 0
    ELSE IF fuel = 0 \/ n.best_pred \notin DOMAIN nodes THEN -1000
    ELSE IF ~Adjacent(n.pos, nodes[n.best_pred].pos) \/ ~Passable(n.pos) THEN -1000
    ELSE 1 + ChainLen(nodes[n.best_pred], fuel - 1)

----------------------------------------------------------------------------
\* The claims

\* C1: a returned non-empty sequence consists of N, S, E, W, and replayed from
\* the starting position it never enters a wall or leaves the grid and ends at
\* the ending position.
C1_Validity ==
    (Returned /\ Result # <<>>) =>
        /\ \A k \in 1..Len(Result) : Result[k] \in {"N", "S", "E", "W"}
        /\ \A k \in 1..Len(Result) : Passable(Walk(starting_position, Result, k))
        /\ Walk(starting_position, Result, Len(Result)) = ending_position

\* C2: when a path of passable cells connects start and goal, the returned
\* sequence is as long as the breadth-first distance between them.
C2_Optimal ==
    (Returned /\ Connected) => Len(Result) = Dist(starting_position, ending_position)

\* a detour around walls was returned
C2_Witness ==
    /\ Returned
    /\ Connected
    /\ Len(Result) > calculate_shortest_possible(starting_position, ending_position)

\* C3: when no walk over passable cells leads from start to goal, the search
\* ends with the frontier empty and the empty sequence is returned.
C3_Unreachable ==
    (Returned /\ ~Connected) => (Result = <<>> /\ open_list = <<>>)

\* C4: with a wall on the start cell or on the goal cell (start # goal) the
\* empty sequence is returned.
C4_WallOnEndpoint ==
    (/\ Returned
     /\ starting_position # ending_position
     /\ \/ IsWall(starting_position[1], starting_position[2])
        \/ IsWall(ending_position[1], ending_position[2]))
    => Result = <<>>

\* C5: when start = goal the empty sequence is returned on the first pop and
\* no node was expanded, whatever the grid holds.
C5_Trivial ==
    (Returned /\ starting_position = ending_position) =>
        /\ Result = <<>>
        /\ last = "found"
        /\ open_list = <<>>
        /\ closed_list = {}
        /\ DOMAIN expansions = {}
        /\ DOMAIN nodes = {id(start)}

\* start = goal on a wall cell of a grid with other cells
C5_Witness ==
    /\ Returned
    /\ starting_position = ending_position
    /\ IsWall(starting_position[1], starting_position[2])
    /\ x * y > 1

\* C6: every invocation terminates: the main loop and the reconstruction loop
\* both end, and solve_maze returns.
C6_Terminates == (pc = "loop") ~> (pc = "done")

\* an invocation returned after expansions and a reconstruction of several steps
C6_Witness ==
    /\ Returned
    /\ Len(Result) >= 3
    /\ Cardinality(closed_list) >= 3

C8_RootInit ==
    (pc = "loop" /\ last = "init") =>
        LET h0 == calculate_shortest_possible(starting_position, ending_position)
        IN  /\ nodes[id(start)].g = 0
            /\ nodes[id(start)].h = h0
            /\ open_list = <<Pair(-(0 + h0), id(start))>>

\* C9: the predecessor chain of every closed node, and of the dequeued target,
\* has as many steps as the breadth-first distance from the root.
C9_ClosedFinal ==
    LET fromRoot == DistFrom(start.pos)
    IN  \A c \in closed_list \cup (IF pc = "path" THEN {c_idx} ELSE {}) :
            ChainLen(nodes[c], x * y) = DistIn(fromRoot, nodes[c].pos)

\* a closed node whose cost had been improved: an entry of worse priority for it
\* is still in the frontier
C9_Witness ==
    \E c \in closed_list :
        /\ ChainLen(nodes[c], x * y) >= 2
        /\ \E i \in DOMAIN open_list :
              open_list[i].value = c /\ open_list[i].key < f(nodes[c])

\* C10: within one invocation the closed list only grows and no id is expanded
\* twice.
C10_ExpandOnce ==
    /\ [](\A c \in DOMAIN expansions : expansions[c] <= 1 /\ c \in closed_list)
    /\ [][run' = run => closed_list \subseteq closed_list']_vars

\* an entry of a closed node was popped and discarded
C10_Witness ==
    /\ last = "discard"
    /\ c_idx \in closed_list
    /\ expansions[c_idx] = 1

----------------------------------------------------------------------------
\* Steps of the main loop, told from the variables the code changes

\* a pop: the loop is entered with a non-empty frontier
PopStep == pc = "loop" /\ open_list # <<>> /\ run' = run

\* an expansion: the pop that adds an id to the closed list
ExpandStep == PopStep /\ closed_list' # closed_list

\* the entries pushed by a pop step: those after the survivors of the old frontier
Pushed == SubSeq(open_list', Len(open_list), Len(open_list'))

\* g, predecessor and arrival move of node i
Cost(tbl, i) == <<tbl[i].g, tbl[i].best_pred, tbl[i].direction>>

\* C11: once an id is in the closed list, g, best_pred and direction of its node
\* are not changed by any later step of the invocation.
C11_ClosedFrozen ==
    [][run' = run =>
          \A c \in closed_list :
              c \in DOMAIN nodes' /\ Cost(nodes', c) = Cost(nodes, c)]_vars

\* an expansion met a closed neighbour other than the root
C11_Witness ==
    /\ last = "expand"
    /\ \E c \in closed_list \ {c_idx, id(start)} :
          Abs(nodes[c].pos[1] - nodes[c_idx].pos[1])
            + Abs(nodes[c].pos[2] - nodes[c_idx].pos[2]) = 1

\* C12: a node that has been reached (g >= 0) is only ever changed by giving it
\* a strictly smaller g; its g never grows.
C12_GDecreases ==
    [][run' = run =>
          \A i \in DOMAIN nodes :
              nodes[i].g >= 0 =>
                  /\ i \in DOMAIN nodes'
                  /\ nodes'[i] = nodes[i] \/ nodes'[i].g < nodes[i].g]_vars

\* an open node whose g was improved: an entry of its former, worse priority is
\* still in the frontier
C12_Witness ==
    \E i \in DOMAIN open_list :
        LET n == open_list[i].value
        IN  /\ n \notin closed_list
            /\ nodes[n].g >= 0
            /\ -open_list[i].key > nodes[n].g + nodes[n].h

\* C13: every pop removes an entry whose g + h (the negated key) is the least
\* of the frontier, and every entry is pushed with the key -(g + h) of its node.
C13_PopsMinimum ==
    [][PopStep =>
          /\ \E i \in DOMAIN open_list :
                /\ \A j \in DOMAIN open_list : -open_list[i].key <= -open_list[j].key
                /\ c_idx' = open_list[i].value
                /\ \A j \in 1..(Len(open_list) - 1) :
                      open_list'[j] = open_list[IF j < i THEN j ELSE j + 1]
          /\ \A j \in DOMAIN Pushed :
                -Pushed[j].key = nodes'[Pushed[j].value].g + nodes'[Pushed[j].value].h]_vars

\* the target was dequeued while entries of greater g + h were waiting
C13_Witness ==
    /\ last = "found"
    /\ pc = "path"
    /\ \E i \in DOMAIN open_list :
          -open_list[i].key > nodes[c_idx].g + nodes[c_idx].h

\* the neighbours of position p, in the grid or not
Around(p) == {<<p[1] + 1, p[2]>>, <<p[1] - 1, p[2]>>, <<p[1], p[2] + 1>>, <<p[1], p[2] - 1>>}

\* the neighbours of the expanded node that the step has to update
Eligible(cur) ==
    {q \in Around(cur.pos) :
        /\ q[1] >= 0 /\ q[1] < x /\ q[2] >= 0 /\ q[2] < y
        /\ map[q[2] + 1][q[1] + 1] # "X"
        /\ q[2] * x + q[1] \notin closed_list'
        /\ \/ q[2] * x + q[1] \notin DOMAIN nodes
           \/ nodes[q[2] * x + q[1]].g < 0
           \/ cur.g + 1 < nodes[q[2] * x + q[1]].g}

\* C14: an expansion updates exactly the neighbours that are in bounds, no wall,
\* not closed and either unreached or strictly improved, and pushes one entry
\* for each; every other node and the rest of the frontier stay as they are.
C14_RelaxIff ==
    [][ExpandStep =>
          LET cur == nodes[c_idx']
              ids == {q[2] * x + q[1] : q \in Eligible(cur)}
          IN  /\ \A q \in Eligible(cur) :
                    LET n == q[2] * x + q[1]
                    IN  /\ n \in DOMAIN nodes'
                        /\ nodes'[n].pos = q
                        /\ nodes'[n].g = cur.g + 1
                        /\ nodes'[n].best_pred = c_idx'
                        /\ Move(q, nodes'[n].direction) = cur.pos
                        /\ nodes'[n].h = Abs(q[1] - starting_position[1])
                                           + Abs(q[2] - starting_position[2])
                        /\ Cardinality({j \in DOMAIN Pushed : Pushed[j].value = n}) = 1
                        /\ \E j \in DOMAIN Pushed :
                              Pushed[j] = [key |-> -(nodes'[n].g + nodes'[n].h), value |-> n]
              /\ \A j \in DOMAIN Pushed : Pushed[j].value \in ids
              /\ \A m \in DOMAIN nodes \ ids : m \in DOMAIN nodes' /\ nodes'[m] = nodes[m]
              /\ \A m \in DOMAIN nodes' \ (DOMAIN nodes \cup ids) : nodes'[m].g < 0]_vars

\* an expansion that updated one neighbour and left alone another, open one
\* whose cost it could not improve
C14_Witness ==
    /\ last = "expand"
    /\ \E m, n \in DOMAIN nodes \ closed_list :
          /\ {nodes[m].pos, nodes[n].pos} \subseteq Around(nodes[c_idx].pos)
          /\ nodes[m].best_pred = c_idx
          /\ nodes[m].g = nodes[c_idx].g + 1
          /\ nodes[n].g >= 0
          /\ nodes[n].best_pred # c_idx

\* the nodes that relaxation has reached: the root keeps g = -1
Reached == {n \in DOMAIN nodes : nodes[n].g >= 0}

\* C15: every reached node other than the root has a predecessor in the node
\* table that is a passable in-bounds cell next to it with g one less; its
\* direction leads from the node to the predecessor; the chain of predecessors
\* ends at the root.
C15_PredecessorChain ==
    \A n \in Reached \ {id(start)} :
        LET p == nodes[n].best_pred
        IN  /\ p \in DOMAIN nodes
            /\ nodes[p].pos[1] >= 0 /\ nodes[p].pos[1] < x
            /\ nodes[p].pos[2] >= 0 /\ nodes[p].pos[2] < y
            /\ map[nodes[p].pos[2] + 1][nodes[p].pos[1] + 1] # "X"
            /\ nodes[p].pos \in Around(nodes[n].pos)
            /\ nodes[p].g = nodes[n].g - 1
            /\ nodes[n].direction \in {"N", "S", "E", "W"}
            /\ Move(nodes[n].pos, nodes[n].direction) = nodes[p].pos
            /\ ChainLen(nodes[n], x * y) >= 0

\* C16: between loop iterations every reached node that is not closed (the root
\* included) has a frontier entry with the key of its current g + h.
C16_LazyDeletion ==
    pc = "loop" =>
        \A n \in (Reached \cup {id(start)}) \ closed_list :
            \E i \in DOMAIN open_list :
                /\ open_list[i].value = n
                /\ -open_list[i].key = nodes[n].g + nodes[n].h

\* an open node with two entries: one of its current g + h, one left over from
\* a worse cost
C16_Witness ==
    /\ pc = "loop"
    /\ \E n \in Reached \ closed_list :
          \E i, j \in DOMAIN open_list :
              /\ open_list[i].value = n /\ open_list[j].value = n
              /\ -open_list[i].key = nodes[n].g + nodes[n].h
              /\ open_list[j].key # open_list[i].key

\* C17: the h of every reached node is the Manhattan distance from its cell to
\* the target; it does not exceed the length of a shortest walk between the two
\* and differs by at most 1 between neighbouring reached cells.  The walk is
\* measured from the target, which leaves out the test of the target cell
\* itself: that bound is the smaller one.
C17_Heuristic ==
    LET fromTarget == DistFrom(starting_position)
    IN  \A n \in Reached :
            /\ nodes[n].h = Abs(nodes[n].pos[1] - starting_position[1])
                              + Abs(nodes[n].pos[2] - starting_position[2])
            /\ nodes[n].pos \in DOMAIN fromTarget => nodes[n].h <= fromTarget[nodes[n].pos]
            /\ \A m \in Reached :
                  nodes[m].pos \in Around(nodes[n].pos) =>
                      Abs(nodes[n].h - nodes[m].h) <= 1

\* a reached cell from which every walk to the target is longer than h
C17_Witness ==
    \E n \in Reached :
        /\ nodes[n].pos \in DOMAIN DistFrom(starting_position)
        /\ nodes[n].h < DistFrom(starting_position)[nodes[n].pos]

====
